---- MODULE Spec2Model ----
(***************************************************************************)
(* Model of lib/env_file.py: an Ansible module that creates, updates or    *)
(* removes one POSIX shell variable assignment in a file of assignments.    *)
(*                                                                          *)
(* A line is a sequence of one-character strings, a file a sequence of     *)
(* lines.  The regular expressions of the classifier are evaluated         *)
(* character by character, backtracking included.                          *)
(***************************************************************************)
EXTENDS Integers, Sequences, FiniteSets, TLC

\* ---------------------------------------------------------------- bounds
\* Longest file (in lines) the task is first run on.
MaxLines == 3

\* ------------------------------------------------------------ characters
NL == "\n"
SQ == "'"
DQ == "\""
BS == "\\"

\* Python's \s over the characters used here.
IsSpace(c) == c \in {" ", "\t", "\n"}

\* Characters shlex.quote leaves bare: [a-zA-Z0-9_@%+=:,./-] over the
\* characters used here.
IsSafeChar(c) == c \in {"a", "b", "i", "s", "v", "1", "F", "O", "B", "A", "R", "X",
                        "e", "x", "p", "o", "r", "t", "=", "_"}

EXPORT == <<"e", "x", "p", "o", "r", "t">>

\* line has the literal lit at position k (1-based).
HasAt(line, k, lit) ==
    /\ k + Len(lit) - 1 <= Len(line)
    /\ \A j \in 1..Len(lit) : line[k + j - 1] = lit[j]

\* line[a..b] consists of whitespace only (empty when b < a).
AllSpace(line, a, b) == \A j \in a..b : IsSpace(line[j])

\* ".*$" from position k: no newline from k on, except one that ends the line.
RestOfLine(line, k) ==
    \A j \in k..Len(line) : line[j] = NL => j = Len(line)

\* ".+$" from position k: as RestOfLine, with at least one character matched.
RestOfLine1(line, k) ==
    /\ k <= Len(line)
    /\ line[k] # NL
    /\ RestOfLine(line, k)

\* Length of the run of whitespace that starts at position k.
RECURSIVE SpaceRun(_, _)
SpaceRun(line, k) ==
    IF k <= Len(line) /\ IsSpace(line[k]) THEN 1 + SpaceRun(line, k + 1) ELSE 0

\* "\s*" from position k: the positions the match may end before (the
\* matcher backtracks over every length of the run).
AfterSpace(line, k) == k..(k + SpaceRun(line, k))

\* "export\s+" from position k: the positions the match may end before.
ExportEnds(line, k) ==
    IF HasAt(line, k, EXPORT) THEN AfterSpace(line, k + 6) \ {k + 6} ELSE {}

\* "#?" from position k.
AfterHash(line, k) ==
    {k} \cup (IF k <= Len(line) /\ line[k] = "#" THEN {k + 1} ELSE {})

\* "NAME=.*$" from position k.
Assignment(name, line, k) ==
    /\ HasAt(line, k, name \o <<"=">>)
    /\ RestOfLine(line, k + Len(name) + 1)

\* matches a declaration with the given name
match_var(name, line) ==
    \E a \in AfterSpace(line, 1) : \E h \in AfterHash(line, a) :
      \E b \in AfterSpace(line, h) :
        \/ Assignment(name, line, b)
        \/ \E e \in ExportEnds(line, b) : Assignment(name, line, e)

\* matches a declaration with the given name, as long as it isn't commented out
match_active_var(name, line) ==
    \E a \in AfterSpace(line, 1) :
        \/ Assignment(name, line, a)
        \/ \E e \in ExportEnds(line, a) : Assignment(name, line, e)

\* '^\s*export\s*.+$'
is_exported(line) ==
    \E a \in AfterSpace(line, 1) :
        /\ HasAt(line, a, EXPORT)
        /\ \E b \in AfterSpace(line, a + 6) : RestOfLine1(line, b)

\* text.replace("'", by)
RECURSIVE replace_quote(_, _)
replace_quote(text, by) ==
    IF text = <<>> THEN <<>>
    ELSE (IF Head(text) = SQ THEN by ELSE <<Head(text)>>)
         \o replace_quote(Tail(text), by)

\* shlex.quote of the standard library (Python 3.3 and later).
shlex_quote(text) ==
    IF text = <<>> THEN <<SQ, SQ>>
    ELSE IF \A j \in 1..Len(text) : IsSafeChar(text[j]) THEN text
    ELSE <<SQ>> \o replace_quote(text, <<SQ, DQ, SQ, DQ, SQ>>) \o <<SQ>>

\* The except branch: "'%s'" % text.replace("'", "'\\''")
quote_fallback(text) ==
    <<SQ>> \o replace_quote(text, <<SQ, BS, SQ, SQ>>) \o <<SQ>>


\* ----------------------------------------------------------------- state
VARIABLES
    target,        \* the file at `path`: whether it exists, and its lines
    has_quote,     \* the interpreter's shlex has quote (Python 3) or not (2.7)
    var, val, state,   \* module.params of the task
    before,        \* env_lines as read by the latest run
    env_lines,     \* env_lines when the latest run left the rewrite
    changed, msg, matched_line, index,
    rc,            \* how the latest run ended
    prev_lines,    \* the lines the run before the latest left in the file,
                   \* or in check mode would have left
    prev_rc        \* how the run before the latest ended

vars == <<target, has_quote, var, val, state, before, env_lines, changed, msg,
          matched_line, index, rc, prev_lines, prev_rc>>

\* shell_escape with the embedded single quotes left as they are.
shell_escape_unreplaced(text) == <<SQ>> \o text \o <<SQ>>

\* Process a value so that it may be safely inserted in to a shell script
shell_escape(text) ==
    IF has_quote THEN shlex_quote(text) ELSE quote_fallback(text)

\* line_value = '%s=%s\n' % (var, shell_escape(val))
line_value(name, value) == name \o <<"=">> \o shell_escape(value) \o <<NL>>

\* 'export %s' % new_line
with_export(line) == EXPORT \o <<" ">> \o line

\* Guard against empty file
guard_empty(lines) == IF lines = <<>> THEN << <<NL>> >> ELSE lines

\* env_lines[-1] == "" or env_lines[-1][-1] != '\n'
lacks_newline(lines) ==
    LET last == lines[Len(lines)]
    IN  last = <<>> \/ last[Len(last)] # NL

\* del env_lines[index]
del(lines, i) == SubSeq(lines, 1, i - 1) \o SubSeq(lines, i + 1, Len(lines))

\* Index of the first line the for loop stops at under state == 'absent',
\* 0 when it runs to the end.
first_active(name, lines) ==
    LET hits == {i \in 1..Len(lines) : match_active_var(name, lines[i])}
    IN  IF hits = {} THEN 0 ELSE CHOOSE i \in hits : \A j \in hits : i <= j

\* first_match with the commented-out declarations passed over.
first_match_active(name, lines) == first_active(name, lines)

\* Index of the first line the for loop stops at otherwise, 0 when none.
first_match(name, lines) ==
    LET hits == {i \in 1..Len(lines) : match_var(name, lines[i])}
    IN  IF hits = {} THEN 0 ELSE CHOOSE i \in hits : \A j \in hits : i <= j

\* Determine if the line is already exported and whether it should remain so
should_export(st, line) ==
    (st = "exported") \/ (st = "present" /\ is_exported(line))

\* prune with the test of the line left out: every later line goes.
prune_tail(name, lines, i) == SubSeq(lines, 1, i - 1)

\* while index < len(env_lines): delete the active declarations from i on
RECURSIVE prune(_, _, _)
prune(name, lines, i) ==
    IF i > Len(lines) THEN lines
    ELSE IF match_active_var(name, lines[i]) THEN prune(name, del(lines, i), i)
    ELSE prune(name, lines, i + 1)

\* remove_var without the break: every active declaration goes.
remove_every_var(name, lines, chg) ==
    IF first_active(name, lines) = 0
    THEN [env_lines |-> lines, changed |-> chg, msg |-> "",
          matched_line |-> FALSE, index |-> 0]
    ELSE [env_lines |-> prune(name, lines, 1), changed |-> TRUE, msg |-> "var removed",
          matched_line |-> FALSE, index |-> first_active(name, lines)]

\* The branch of the loop for state == 'absent'.
remove_var(name, lines, chg) ==
    LET i == first_active(name, lines)
    IN  IF i = 0
        THEN [env_lines |-> lines, changed |-> chg, msg |-> "",
              matched_line |-> FALSE, index |-> 0]
        ELSE [env_lines |-> del(lines, i), changed |-> TRUE, msg |-> "var removed",
              matched_line |-> FALSE, index |-> i]

\* The branch of the loop for the other states, run on the first match i.
update_var(name, value, st, lines, chg, i) ==
    LET new_line == IF should_export(st, lines[i])
                    THEN with_export(line_value(name, value))
                    ELSE line_value(name, value)
        var_changed == lines[i] # new_line
        written == [lines EXCEPT ![i] = new_line]
    IN  [env_lines |-> IF var_changed THEN prune(name, written, i + 1) ELSE written,
         changed |-> (chg \/ var_changed),
         msg |-> IF var_changed THEN "var changed" ELSE "",
         matched_line |-> TRUE, index |-> i]

\* add_var with the test of state == 'local' left out.
add_var_exported(name, value, st, lines) ==
    [env_lines |-> Append(lines, with_export(line_value(name, value))),
     changed |-> TRUE, msg |-> "var added", matched_line |-> FALSE, index |-> 0]

\* Add the variable, if not extant
add_var(name, value, st, lines) ==
    LET new_line == IF st # "local"
                    THEN with_export(line_value(name, value))
                    ELSE line_value(name, value)
    IN  [env_lines |-> Append(lines, new_line), changed |-> TRUE, msg |-> "var added",
         matched_line |-> FALSE, index |-> 0]

\* Lines 130-179, on lines that end with a newline.
rewrite(name, value, st, lines, chg) ==
    IF st = "absent" THEN remove_var(name, lines, chg)
    ELSE LET i == first_match(name, lines)
         IN  IF i # 0 THEN update_var(name, value, st, lines, chg, i)
             ELSE add_var(name, value, st, lines)

\* Lines 119-179.  ini_lines is bound nowhere, so the statement that appends
\* the missing newline raises NameError and apply is left through it.
apply_lines(name, value, st, lines) ==
    LET guarded == guard_empty(lines)
    IN  IF lacks_newline(guarded)
        THEN [env_lines |-> guarded, changed |-> FALSE, msg |-> "",
              matched_line |-> FALSE, index |-> 0, rc |-> "NameError"]
        ELSE [rc |-> "ok"] @@ rewrite(name, value, st, guarded, FALSE)


\* ---------------------------------------------------------------- inputs
FOO == <<"F", "O", "O">>
EXPORTX == <<"e", "x", "p", "o", "r", "t", "X">>

\* Variable names the module is invoked with.
Names == {FOO, EXPORTX}

\* Values the module is invoked with: val's default '', a value of safe
\* characters, and one with an embedded single quote.
Values == {<<>>, <<"a">>, <<"i", SQ, "s">>}

States == {"absent", "present", "local", "exported"}

\* Lines of the file the module is first started on, as readlines() yields them.
Pool == {
    <<"F", "O", "O", "=", "a", NL>>,
    <<"e", "x", "p", "o", "r", "t", " ", "F", "O", "O", "=", "a", NL>>,
    <<" ", "e", "x", "p", "o", "r", "t", "\t", "F", "O", "O", "=", "b", NL>>,
    <<"#", " ", "F", "O", "O", "=", "a", NL>>,
    <<"B", "A", "R", "=", "b", NL>>,
    <<"e", "x", "p", "o", "r", "t", "X", "=", "1", NL>> }

\* readlines() ends every line but possibly the last with a newline.
Files ==
    LET whole == UNION {[1..n -> Pool] : n \in 0..MaxLines}
        chop(f) == [f EXCEPT ![Len(f)] = SubSeq(f[Len(f)], 1, Len(f[Len(f)]) - 1)]
    IN  whole \cup {chop(f) : f \in whole \ {<<>>}}

\* A task (var, val, state) about to be run for the first time on a host.
Init ==
    /\ target \in [exists : {TRUE}, lines : Files] \cup {[exists |-> FALSE, lines |-> <<>>]}
    /\ has_quote \in BOOLEAN
    /\ var \in Names /\ val \in Values /\ state \in States
    /\ before = <<>> /\ env_lines = <<>>
    /\ changed = FALSE /\ msg = "" /\ matched_line = FALSE /\ index = 0
    /\ rc = "none"
    /\ prev_lines = <<>> /\ prev_rc = "none"

\* One run of the task: main() calling apply(module, path, var, val, state,
\* create, backup), under the create and check_mode of that run.  read is
\* what readlines() yields (nothing for a file that is not there), r what
\* lines 119-179 make of it; both are bound once for the whole step.
Apply ==
    \E read \in {IF target.exists THEN target.lines ELSE <<>>} :
      \E r \in {apply_lines(var, val, state, read)} :
        /\ prev_lines' = (IF changed THEN env_lines ELSE before)
        /\ prev_rc' = rc
        /\ UNCHANGED <<has_quote, var, val, state>>
        /\ \E create \in BOOLEAN, check_mode \in BOOLEAN :
             IF ~target.exists /\ ~create
             THEN \* module.fail_json(rc=257, ...)
                  /\ rc' = "fail_json"
                  /\ before' = <<>> /\ env_lines' = <<>>
                  /\ changed' = FALSE /\ msg' = "" /\ matched_line' = FALSE /\ index' = 0
                  /\ UNCHANGED target
             ELSE /\ before' = read
                  /\ env_lines' = r.env_lines
                  /\ changed' = r.changed /\ msg' = r.msg
                  /\ matched_line' = r.matched_line /\ index' = r.index
                  /\ rc' = r.rc
                  /\ IF r.rc = "ok" /\ r.changed /\ ~check_mode
                     THEN target' = [exists |-> TRUE, lines |-> r.env_lines]
                     ELSE UNCHANGED target

Next == Apply

Spec == Init /\ [][Next]_vars

\* ------------------------------------------------------------ properties
\* The latest run returned from apply.
Done == rc = "ok"

\* The task asks for the variable to be there.
Updating == state \in {"present", "local", "exported"}

\* A declaration of the task's variable, active or commented-out.
Declares(line) == match_var(var, line)

\* An active (un-commented) declaration of the task's variable.
Active(line) == match_active_var(var, line)

DeclaredIn(lines) == \E i \in 1..Len(lines) : Declares(lines[i])
ActiveIn(lines) == \E i \in 1..Len(lines) : Active(lines[i])

\* Index of the first declaration / first active declaration in document order.
FirstDeclared(lines) ==
    CHOOSE i \in 1..Len(lines) :
        Declares(lines[i]) /\ \A j \in 1..(i - 1) : ~Declares(lines[j])
FirstActive(lines) ==
    CHOOSE i \in 1..Len(lines) :
        Active(lines[i]) /\ \A j \in 1..(i - 1) : ~Active(lines[j])

\* lines without its i-th element.
Without(lines, i) ==
    [j \in 1..(Len(lines) - 1) |-> IF j < i THEN lines[j] ELSE lines[j + 1]]

\* The lines that declare the task's variable in no way.
IsUnrelated(line) == ~Declares(line)
Unrelated(lines) == SelectSeq(lines, IsUnrelated)

\* The sequence a run returns to its caller: apply hands env_lines to the
\* file when changed is set and leaves the file with the lines read when it
\* is not (in check mode the same, with nothing written).
Result == IF changed THEN env_lines ELSE before

\* The sequence the rewrite starts from: the lines read, or the single line
\* "\n" that stands in for no lines at all.
Input == IF before = <<>> THEN << <<NL>> >> ELSE before

\* The line begins with the seven characters "export ".
HasExportPrefix(line) == HasAt(line, 1, EXPORT \o <<" ">>)

\* After leading whitespace the line begins with export followed by whitespace.
ExportThenSpace(line) ==
    LET a == 1 + SpaceRun(line, 1)
    IN  HasAt(line, a, EXPORT) /\ a + 6 <= Len(line) /\ IsSpace(line[a + 6])

\* The assignment line the task asks for, with and without the prefix.
Assign == var \o <<"=">> \o shell_escape(val) \o <<NL>>
ExportAssign == EXPORT \o <<" ">> \o Assign

\* Where the latest run wrote its assignment line.
WrittenAt == IF matched_line THEN index ELSE Len(env_lines)

\* The value token of an assignment line of var: what stands between
\* "[export ]NAME=" and the newline (<<"?">> when the line has no such form).
Token(line) ==
    LET p == IF HasExportPrefix(line) THEN 7 ELSE 0
    IN  IF /\ HasAt(line, p + 1, var \o <<"=">>)
           /\ line[Len(line)] = NL
        THEN SubSeq(line, p + Len(var) + 2, Len(line) - 1)
        ELSE <<"?">>

\* What a POSIX shell reads a token as: quote removal for single quotes,
\* double quotes and backslash.  <<"?">> marks a token that is no single
\* literal word (an open quote, an expansion, an unquoted separator).
RECURSIVE Unquote(_, _)
Unquote(tok, mode) ==
    IF tok = <<>> THEN (IF mode = "plain" THEN <<>> ELSE <<"?">>)
    ELSE LET c == Head(tok)
             rest == Tail(tok)
         IN  CASE mode = "single" ->
                    IF c = SQ THEN Unquote(rest, "plain")
                    ELSE <<c>> \o Unquote(rest, "single")
               [] mode = "double" ->
                    IF c = DQ THEN Unquote(rest, "plain")
                    ELSE IF c = BS /\ rest # <<>> /\ Head(rest) \in {DQ, BS, "$"}
                    THEN <<Head(rest)>> \o Unquote(Tail(rest), "double")
                    ELSE IF c = "$" THEN <<"?">>
                    ELSE <<c>> \o Unquote(rest, "double")
               [] OTHER ->
                    IF c = SQ THEN Unquote(rest, "single")
                    ELSE IF c = DQ THEN Unquote(rest, "double")
                    ELSE IF c = BS /\ rest # <<>>
                    THEN <<Head(rest)>> \o Unquote(Tail(rest), "plain")
                    ELSE IF IsSafeChar(c) THEN <<c>> \o Unquote(rest, "plain")
                    ELSE <<"?">>

\* The value wrapped in single quotes, each embedded single quote replaced by by.
Wrapped(value, by) ==
    LET Sub(c) == IF c = SQ THEN by ELSE <<c>>
        F[n \in 0..Len(value)] == IF n = 0 THEN <<>> ELSE F[n - 1] \o Sub(value[n])
    IN  <<SQ>> \o F[Len(value)] \o <<SQ>>


\* C1: idempotence of apply.  When a run returned the sequence L1 and the
\* next run of the same task reads exactly L1, that run returns too, reports
\* changed = false and returns a sequence identical to L1.
C1_Idempotent ==
    (prev_rc = "ok" /\ rc # "fail_json" /\ before = prev_lines)
        => (rc = "ok" /\ ~changed /\ Result = prev_lines)

\* C2: export decision on update.  For state present, local or exported and
\* an input with a declaration of the variable, the line written at the match
\* site starts with "export " exactly when state = exported, or state =
\* present and the matched line begins, after leading whitespace, with export
\* followed by whitespace.
C2_ExportDecision ==
    (Done /\ Updating /\ DeclaredIn(before)) =>
        LET i == FirstDeclared(before)
        IN  HasExportPrefix(Result[i]) <=>
              (state = "exported" \/ (state = "present" /\ ExportThenSpace(before[i])))

\* C3 as stated: add-when-absent.  For state present, local or exported and
\* an input without any declaration of the variable, the returned sequence is
\* the input with exactly one line appended, NAME=<shell_escape(value)>\n
\* with "export " in front unless state = local; changed is true and the
\* message says added.
C3_AppendsToInput ==
    (Done /\ Updating /\ ~DeclaredIn(before)) =>
        /\ Result = Append(before, IF state = "local" THEN Assign ELSE ExportAssign)
        /\ changed
        /\ msg = "var added"

\* C3 as amended: the same, the line being appended to the sequence the
\* rewrite starts from, which for an empty input is the single line "\n".
C3_AppendsToGuarded ==
    (Done /\ Updating /\ ~DeclaredIn(before)) =>
        /\ Result = Append(Input, IF state = "local" THEN Assign ELSE ExportAssign)
        /\ changed
        /\ msg = "var added"

C3_Witness ==
    /\ Done /\ Updating /\ ~DeclaredIn(before)
    /\ Len(before) >= 2 /\ state = "local" /\ msg = "var added"

\* C4: the first match is the rewrite site.  For state present, local or
\* exported, the first line in document order that declares the variable,
\* active or commented-out, is replaced at its index by the active assignment
\* line of the variable with the new value; nothing is appended and no line
\* before that index is modified.
C4_FirstMatchRewritten ==
    (Done /\ Updating /\ DeclaredIn(before)) =>
        LET i == FirstDeclared(before)
        IN  /\ matched_line /\ index = i
            /\ Len(Result) <= Len(before)
            /\ \A j \in 1..(i - 1) : Result[j] = before[j]
            /\ Result[i] \in {Assign, ExportAssign}
            /\ Active(Result[i])
            /\ Result[i][1] # "#"

C4_Witness ==
    /\ Done /\ Updating /\ DeclaredIn(before)
    /\ FirstDeclared(before) > 1
    /\ before[FirstDeclared(before)][1] = "#"
    /\ ActiveIn(before)
    /\ changed

\* C5: absent removes only the first active match.  With state = absent the
\* returned sequence is the input without its first active declaration of
\* the variable, changed is true and the message says removed; without an
\* active declaration the input is returned unchanged, changed is false and
\* there is no message.
C5_RemovesFirstActive ==
    (Done /\ state = "absent") =>
        IF ActiveIn(before)
        THEN /\ Result = Without(before, FirstActive(before))
             /\ changed /\ msg = "var removed"
        ELSE /\ Result = before
             /\ ~changed /\ msg = ""

C5_Witness ==
    /\ Done /\ state = "absent" /\ msg = "var removed"
    /\ ActiveIn(Result)
    /\ \E i \in 1..Len(Result) : Declares(Result[i]) /\ ~Active(Result[i])

\* C6: absent removes all active assignments.  After a run with state =
\* absent the returned sequence holds no active assignment of the variable.
C6_NoActiveLeft ==
    (Done /\ state = "absent") => ~ActiveIn(Result)

\* C7 as stated: unrelated lines are passed through.  The lines of the output
\* that do not declare the variable are, in order, the lines of the input
\* that do not declare it.
C7_UnrelatedOfInput ==
    Done => Unrelated(Result) = Unrelated(before)

\* C7 as amended: the same, except that a run which adds the variable to an
\* empty input puts the single line "\n" in front of it.
C7_UnrelatedOfGuarded ==
    Done => Unrelated(Result) = Unrelated(IF changed THEN Input ELSE before)

C7_Witness ==
    /\ Done /\ Updating /\ msg = "var changed"
    /\ Len(Result) < Len(before)
    /\ IsUnrelated(before[Len(before)])

C9_NewlineAppended ==
    (rc \in {"ok", "NameError"} /\ before # <<>> /\ lacks_newline(before)) =>
        /\ rc = "ok"
        /\ changed
        /\ ~lacks_newline(Result)

\* C10: single active assignment after update.  After a run with state
\* present, local or exported the returned sequence holds at most one active
\* declaration of the variable.
C10_AtMostOneActive ==
    (Done /\ Updating) =>
        Cardinality({i \in 1..Len(Result) : Active(Result[i])}) <= 1

====
